---- MODULE Spec2Model ----
(***************************************************************************)
(* Model of spark.event.EventBus (src/spark/event.py).                     *)
(*                                                                         *)
(* A bus owns a dict `subscribers` (event class -> list of callbacks) and  *)
(* a list `followers` of other buses.  publish() is synchronous and        *)
(* recursive; it is modelled step by step with an explicit call stack, one *)
(* frame per active publish() call.  `trace` records what the current      *)
(* top-level call has done so far (publish() entries and callback          *)
(* invocations, in order), `result` how it ended, `last` which call it is  *)
(* and `before` the collections of all buses when it was made.             *)
(***************************************************************************)
EXTENDS Integers, Sequences, FiniteSets, TLC

\* ---------------------------------------------------------------- bounds --
MaxEntries == 3     \* registrations plus follower entries, over all buses
MaxDepth == 3       \* interpreter recursion limit for nested publish()
MaxReentrant == 1   \* bus methods called by callbacks during one publish

\* -------------------------------------------------------------- universe --
Buses == {"bus", "bus2", "bus3"}
Callbacks == {"subscr.notify", "subscr2.notify"}
\* TestEvent1 subclasses BaseEvent; object does not implement IEvent.
Klasses == {"BaseEvent", "TestEvent1", "object"}

\* the classes that declare or inherit implements(IEvent)
EventKlasses == {"BaseEvent", "TestEvent1"}

\* the callbacks that are offered to each bus: both to the first bus, one
\* (shared with the first bus) to the others
CallbacksOf(b) == IF b = "bus" THEN Callbacks ELSE {"subscr2.notify"}

Bases(klass) ==
    IF klass = "TestEvent1" THEN {"BaseEvent"} ELSE {}

\* no check of the class at all
implementedBy_any(klass) == TRUE

\* IEvent.implementedBy(klass): BaseEvent declares implements(IEvent), and
\* the declaration is inherited by its subclasses.
implementedBy(klass) ==
    klass = "BaseEvent" \/ "BaseEvent" \in Bases(klass)

\* no check of the event at all
providedBy_any(klass) == TRUE

\* IEvent.providedBy(event), for an event that is an instance of klass.
providedBy(klass) == implementedBy(klass)

VARIABLES subscribers, followers, stack, trace, result, last, before

vars == <<subscribers, followers, stack, trace, result, last, before>>

\* ------------------------------------------------------- python helpers --
EmptyDict == [k \in {} |-> <<>>]

InList(x, s) == \E i \in 1..Len(s) : s[i] = x

FirstIndex(x, s) == CHOOSE i \in 1..Len(s) : s[i] = x /\ \A j \in 1..(i-1) : s[j] # x

\* removal of every occurrence of x
ListRemove_all(s, x) == SelectSeq(s, LAMBDA y : y # x)

\* list.remove(x) for x in s: drops the first occurrence
ListRemove(s, x) ==
    LET i == FirstIndex(x, s)
    IN  [j \in 1..(Len(s)-1) |-> IF j < i THEN s[j] ELSE s[j+1]]

DictSet(d, key, val) ==
    [k \in (DOMAIN d) \cup {key} |-> IF k = key THEN val ELSE d[k]]

DictDel(d, key) == [k \in (DOMAIN d) \ {key} |-> d[k]]

\* number of (bus, klass, callback) entries held by the dicts subs
Registrations(subs) ==
    Cardinality(UNION {{b} \X UNION {{k} \X (1..Len(subs[b][k])) : k \in DOMAIN subs[b]} :
                       b \in Buses})

\* number of entries held by the follower lists fols
Connections(fols) ==
    Cardinality(UNION {{b} \X (1..Len(fols[b])) : b \in Buses})

Call(op, b, klass, arg) == [op |-> op, bus |-> b, klass |-> klass, arg |-> arg]

NoCall == Call("none", "none", "none", "none")

Snapshot == [subscribers |-> subscribers, followers |-> followers]
NoSnapshot == [subscribers |-> <<>>, followers |-> <<>>]

\* entry of the top-level call op(...) on bus b
Enter(op, b, klass, arg) ==
    /\ stack = <<>>
    /\ last = NoCall
    /\ last' = Call(op, b, klass, arg)
    /\ before' = Snapshot


\* ------------------------------------------------------------------ init --
\* EventBus.__init__ for every bus; nothing has been called yet.
Init ==
    /\ subscribers = [b \in Buses |-> EmptyDict]
    /\ followers = [b \in Buses |-> <<>>]
    /\ stack = <<>>
    /\ trace = <<>>
    /\ result = "none"
    /\ last = NoCall
    /\ before = NoSnapshot

\* ------------------------------------------------------------ operations --
\* subscribe() without the "already subscribed" test
Subscribed_append_always(d, klass, callback) ==
    LET d1 == IF klass \notin DOMAIN d THEN DictSet(d, klass, <<>>) ELSE d
    IN  DictSet(d1, klass, Append(d1[klass], callback))

\* body of subscribe() past the IEvent check, on the dict d of one bus
Subscribed(d, klass, callback) ==
    LET d1 == IF klass \notin DOMAIN d THEN DictSet(d, klass, <<>>) ELSE d
    IN  IF ~InList(callback, d1[klass])
        THEN DictSet(d1, klass, Append(d1[klass], callback))
        ELSE d1

subscribe(b, klass, callback) ==
    /\ Enter("subscribe", b, klass, callback)
    /\ trace' = <<>>
    /\ UNCHANGED <<followers, stack>>
    /\ IF ~implementedBy(klass)
       THEN /\ result' = "BusError"
            /\ UNCHANGED subscribers
       ELSE /\ subscribers' = [subscribers EXCEPT ![b] = Subscribed(@, klass, callback)]
            /\ result' = "ok"
            /\ Registrations(subscribers') + Connections(followers) <= MaxEntries

\* unsubscribe() that drops the whole entry of klass
Unsubscribed_del_key(d, klass, callback) ==
    IF klass \in DOMAIN d /\ InList(callback, d[klass]) THEN DictDel(d, klass) ELSE d

\* unsubscribe() without the clean-up of the emptied entry
Unsubscribed_keep_key(d, klass, callback) ==
    IF klass \in DOMAIN d /\ InList(callback, d[klass])
    THEN DictSet(d, klass, ListRemove(d[klass], callback))
    ELSE d

\* body of unsubscribe() past the IEvent check, on the dict d of one bus
Unsubscribed(d, klass, callback) ==
    IF klass \in DOMAIN d
    THEN LET l1 == IF InList(callback, d[klass])
                   THEN ListRemove(d[klass], callback)
                   ELSE d[klass]
         IN  IF Len(l1) = 0 THEN DictDel(d, klass) ELSE DictSet(d, klass, l1)
    ELSE d

unsubscribe(b, klass, callback) ==
    /\ Enter("unsubscribe", b, klass, callback)
    /\ trace' = <<>>
    /\ UNCHANGED <<followers, stack>>
    /\ IF ~implementedBy(klass)
       THEN /\ result' = "BusError"
            /\ UNCHANGED subscribers
       ELSE /\ subscribers' = [subscribers EXCEPT ![b] = Unsubscribed(@, klass, callback)]
            /\ result' = "ok"

\* unsubscribe_all() on a dict that all buses share
unsubscribe_all_shared(b) ==
    /\ Enter("unsubscribe_all", b, "none", "none")
    /\ trace' = <<>>
    /\ subscribers' = [c \in Buses |-> EmptyDict]
    /\ result' = "ok"
    /\ UNCHANGED <<followers, stack>>

\* unsubscribe_all() that forgets the entries of the subclasses
unsubscribe_all_base_only(b) ==
    /\ Enter("unsubscribe_all", b, "none", "none")
    /\ trace' = <<>>
    /\ subscribers' = [subscribers EXCEPT ![b] = DictDel(@, "BaseEvent")]
    /\ result' = "ok"
    /\ UNCHANGED <<followers, stack>>

unsubscribe_all(b) ==
    /\ Enter("unsubscribe_all", b, "none", "none")
    /\ trace' = <<>>
    /\ subscribers' = [subscribers EXCEPT ![b] = EmptyDict]
    /\ result' = "ok"
    /\ UNCHANGED <<followers, stack>>

Bool(v) == IF v THEN "True" ELSE "False"

HasSubscribed(b, klass, callback) ==
    klass \in DOMAIN subscribers[b] /\ InList(callback, subscribers[b][klass])

has_subscribed(b, klass, callback) ==
    /\ Enter("has_subscribed", b, klass, callback)
    /\ trace' = <<>>
    /\ result' = Bool(HasSubscribed(b, klass, callback))
    /\ UNCHANGED <<subscribers, followers, stack>>

\* connect() that refuses a bus from which b can be reached
connect_checked(b, other) ==
    /\ Enter("connect", b, "none", other)
    /\ trace' = <<>>
    /\ UNCHANGED <<subscribers, stack>>
    /\ IF other = b \/ InList(b, followers[other])
       THEN /\ result' = "BusError"
            /\ UNCHANGED followers
       ELSE /\ followers' = [followers EXCEPT ![b] = Append(@, other)]
            /\ result' = "ok"
            /\ Registrations(subscribers) + Connections(followers') <= MaxEntries

connect(b, other) ==
    /\ Enter("connect", b, "none", other)
    /\ trace' = <<>>
    /\ followers' = [followers EXCEPT ![b] = Append(@, other)]
    /\ Registrations(subscribers) + Connections(followers') <= MaxEntries
    /\ result' = "ok"
    /\ UNCHANGED <<subscribers, stack>>

\* disconnect() that ignores a bus that is not connected
disconnect_quiet(b, other) ==
    /\ Enter("disconnect", b, "none", other)
    /\ trace' = <<>>
    /\ UNCHANGED <<subscribers, stack>>
    /\ result' = "ok"
    /\ followers' = [followers EXCEPT ![b] =
                        IF InList(other, @) THEN ListRemove(@, other) ELSE @]

disconnect(b, other) ==
    /\ Enter("disconnect", b, "none", other)
    /\ trace' = <<>>
    /\ UNCHANGED <<subscribers, stack>>
    /\ IF InList(other, followers[b])
       THEN /\ followers' = [followers EXCEPT ![b] = ListRemove(@, other)]
            /\ result' = "ok"
       ELSE /\ result' = "ValueError"
            /\ UNCHANGED followers

IsConnected(b, other) == InList(other, followers[b])

is_connected(b, other) ==
    /\ Enter("is_connected", b, "none", other)
    /\ trace' = <<>>
    /\ result' = Bool(IsConnected(b, other))
    /\ UNCHANGED <<subscribers, followers, stack>>

disconnect_all(b) ==
    /\ Enter("disconnect_all", b, "none", "none")
    /\ trace' = <<>>
    /\ followers' = [followers EXCEPT ![b] = <<>>]
    /\ result' = "ok"
    /\ UNCHANGED <<subscribers, stack>>

\* clear() without the call of disconnect_all()
clear_keep_followers(b) ==
    /\ Enter("clear", b, "none", "none")
    /\ trace' = <<>>
    /\ subscribers' = [subscribers EXCEPT ![b] = EmptyDict]
    /\ result' = "ok"
    /\ UNCHANGED <<followers, stack>>

clear(b) ==
    /\ Enter("clear", b, "none", "none")
    /\ trace' = <<>>
    /\ subscribers' = [subscribers EXCEPT ![b] = EmptyDict]
    /\ followers' = [followers EXCEPT ![b] = <<>>]
    /\ result' = "ok"
    /\ UNCHANGED stack

\* ---------------------------------------------------------------- publish --
\* One active publish() call: its bus, the loop it is in and the position of
\* that loop's iterator.  The iterator holds the list object it was started
\* on; `detached` says that the bus has meanwhile dropped that object (the
\* dict or the follower list was replaced, or the key deleted), `items` is
\* what the dropped object holds.
Frame(b) == [bus |-> b, pc |-> "subscribers", i |-> 1,
             detached |-> FALSE, items |-> <<>>]

Entered(b) == [kind |-> "publish", bus |-> b, callback |-> "none"]
Called(b, callback) == [kind |-> "notify", bus |-> b, callback |-> callback]

Top == stack[Len(stack)]
SetTop(f) == [stack EXCEPT ![Len(stack)] = f]
Pop == SubSeq(stack, 1, Len(stack) - 1)

\* dispatch that also matches the classes the event's class derives from
Listeners_isinstance(b, klass) ==
    LET ks == {k \in DOMAIN subscribers[b] : k = klass \/ k \in Bases(klass)}
    IN  IF ks = {} THEN <<>> ELSE subscribers[b][CHOOSE k \in ks : TRUE]

\* the list the dispatch loop iterates over: self.subscribers[type(event)],
\* no loop at all when the exact type is not a key
Listeners(b, klass) ==
    IF klass \in DOMAIN subscribers[b] THEN subscribers[b][klass] ELSE <<>>

\* the list the running loop of frame f iterates over
Iterated(f) ==
    IF f.detached THEN f.items
    ELSE IF f.pc = "subscribers" THEN Listeners(f.bus, last.klass)
    ELSE followers[f.bus]

\* top-level call bus.publish(event), event an instance of klass
publish(b, klass) ==
    /\ Enter("publish", b, klass, "none")
    /\ trace' = <<Entered(b)>>
    /\ UNCHANGED <<subscribers, followers>>
    /\ IF ~providedBy(klass)
       THEN /\ result' = "BusError"
            /\ UNCHANGED stack
       ELSE /\ result' = "running"
            /\ stack' = <<Frame(b)>>

\* subscriber(event): next callback of the dispatch loop
Notify ==
    /\ stack # <<>>
    /\ Top.pc = "subscribers"
    /\ Top.i <= Len(Iterated(Top))
    /\ trace' = Append(trace, Called(Top.bus, Iterated(Top)[Top.i]))
    /\ stack' = SetTop([Top EXCEPT !.i = @ + 1])
    /\ UNCHANGED <<subscribers, followers, result, last, before>>

\* dispatch loop exhausted (or skipped): go on to the followers loop, on
\* the list self.followers is at that moment
EndDispatch ==
    /\ stack # <<>>
    /\ Top.pc = "subscribers"
    /\ Top.i > Len(Iterated(Top))
    /\ stack' = SetTop([Top EXCEPT !.pc = "followers", !.i = 1,
                                   !.detached = FALSE, !.items = <<>>])
    /\ UNCHANGED <<subscribers, followers, trace, result, last, before>>

\* followers loop that stops after its first follower
Forward_first_only ==
    /\ stack # <<>>
    /\ Top.pc = "followers"
    /\ Top.i <= Len(followers[Top.bus])
    /\ Len(stack) < MaxDepth
    /\ LET f == followers[Top.bus][Top.i]
       IN  /\ trace' = Append(trace, Entered(f))
           /\ stack' = Append(SetTop([Top EXCEPT !.i = Len(followers[Top.bus]) + 1]),
                              Frame(f))
    /\ UNCHANGED <<subscribers, followers, result, last, before>>

\* followers loop that walks the list from its end
Forward_reverse ==
    /\ stack # <<>>
    /\ Top.pc = "followers"
    /\ Top.i <= Len(followers[Top.bus])
    /\ Len(stack) < MaxDepth
    /\ LET f == followers[Top.bus][Len(followers[Top.bus]) + 1 - Top.i]
       IN  /\ trace' = Append(trace, Entered(f))
           /\ stack' = Append(SetTop([Top EXCEPT !.i = @ + 1]), Frame(f))
    /\ UNCHANGED <<subscribers, followers, result, last, before>>

\* followers loop that skips a bus the event has already been published on
Forward_visited_once ==
    /\ stack # <<>>
    /\ Top.pc = "followers"
    /\ Top.i <= Len(followers[Top.bus])
    /\ Len(stack) < MaxDepth
    /\ LET f == followers[Top.bus][Top.i]
       IN  IF \E n \in 1..Len(trace) : trace[n] = Entered(f)
           THEN /\ stack' = SetTop([Top EXCEPT !.i = @ + 1])
                /\ UNCHANGED trace
           ELSE /\ trace' = Append(trace, Entered(f))
                /\ stack' = Append(SetTop([Top EXCEPT !.i = @ + 1]), Frame(f))
    /\ UNCHANGED <<subscribers, followers, result, last, before>>

\* followers loop that calls self.publish(event) for each follower
Forward_to_self ==
    /\ stack # <<>>
    /\ Top.pc = "followers"
    /\ Top.i <= Len(followers[Top.bus])
    /\ Len(stack) < MaxDepth
    /\ trace' = Append(trace, Entered(Top.bus))
    /\ stack' = Append(SetTop([Top EXCEPT !.i = @ + 1]), Frame(Top.bus))
    /\ UNCHANGED <<subscribers, followers, result, last, before>>

\* follower.publish(event): nested call on the next follower
Forward ==
    /\ stack # <<>>
    /\ Top.pc = "followers"
    /\ Top.i <= Len(Iterated(Top))
    /\ Len(stack) < MaxDepth
    /\ LET f == Iterated(Top)[Top.i]
       IN  /\ trace' = Append(trace, Entered(f))
           /\ stack' = Append(SetTop([Top EXCEPT !.i = @ + 1]), Frame(f))
    /\ UNCHANGED <<subscribers, followers, result, last, before>>

\* follower.publish(event) beyond the recursion limit: the interpreter
\* raises, nothing catches it, every active publish() is unwound
Overflow ==
    /\ stack # <<>>
    /\ Top.pc = "followers"
    /\ Top.i <= Len(Iterated(Top))
    /\ Len(stack) >= MaxDepth
    /\ stack' = <<>>
    /\ result' = "RuntimeError"
    /\ UNCHANGED <<subscribers, followers, trace, last, before>>

\* followers loop exhausted: publish() returns to its caller
Return ==
    /\ stack # <<>>
    /\ Top.pc = "followers"
    /\ Top.i > Len(Iterated(Top))
    /\ stack' = Pop
    /\ result' = IF Len(stack) = 1 THEN "ok" ELSE result
    /\ UNCHANGED <<subscribers, followers, trace, last, before>>

\* The call has returned or raised and its caller goes on.  The bus keeps
\* nothing of a call but its two collections.
Done ==
    /\ stack = <<>>
    /\ last # NoCall
    /\ last' = NoCall
    /\ before' = NoSnapshot
    /\ trace' = <<>>
    /\ result' = "none"
    /\ UNCHANGED <<subscribers, followers, stack>>

\* ------------------------------------------------------------------ next --
Next ==
    \/ \E b \in Buses, klass \in Klasses : \E callback \in CallbacksOf(b) :
          subscribe(b, klass, callback)
    \/ \E b \in Buses, klass \in Klasses : \E callback \in CallbacksOf(b) :
          unsubscribe(b, klass, callback)
    \/ \E b \in Buses : unsubscribe_all(b)
    \/ \E b \in Buses, klass \in Klasses : \E callback \in CallbacksOf(b) :
          has_subscribed(b, klass, callback)
    \/ \E b \in Buses, other \in Buses : connect(b, other)
    \/ \E b \in Buses, other \in Buses : disconnect(b, other)
    \/ \E b \in Buses, other \in Buses : is_connected(b, other)
    \/ \E b \in Buses : disconnect_all(b)
    \/ \E b \in Buses : clear(b)
    \/ \E b \in Buses, klass \in Klasses : publish(b, klass)
    \/ Notify
    \/ EndDispatch
    \/ Forward
    \/ Overflow
    \/ Return
    \/ Done

Spec == Init /\ [][Next]_vars

Raised(b, callback) == [kind |-> "raise", bus |-> b, callback |-> callback]

\* a dispatch loop that catches what the callback raises and goes on
NotifyRaises_caught ==
    /\ stack # <<>>
    /\ Top.pc = "subscribers"
    /\ Top.i <= Len(Listeners(Top.bus, last.klass))
    /\ LET callback == Listeners(Top.bus, last.klass)[Top.i]
       IN  trace' = trace \o <<Called(Top.bus, callback), Raised(Top.bus, callback)>>
    /\ stack' = SetTop([Top EXCEPT !.i = @ + 1])
    /\ UNCHANGED <<subscribers, followers, result, last, before>>

\* subscriber(event) raises: publish() has no try statement, so the
\* exception leaves the loop and every active publish()
NotifyRaises ==
    /\ stack # <<>>
    /\ Top.pc = "subscribers"
    /\ Top.i <= Len(Iterated(Top))
    /\ LET callback == Iterated(Top)[Top.i]
       IN  trace' = trace \o <<Called(Top.bus, callback), Raised(Top.bus, callback)>>
    /\ stack' = <<>>
    /\ result' = "HandlerError"
    /\ UNCHANGED <<subscribers, followers, last, before>>

\* the bus with callbacks that may raise
NextRaise == Next \/ NotifyRaises

RaiseSpec == Init /\ [][NextRaise]_vars

\* one step of a running publish
Step == Notify \/ EndDispatch \/ Forward \/ Overflow \/ Return

\* publish is synchronous: once called it keeps running until it returns or
\* raises
FairSpec == Spec /\ WF_vars(Step)

\* --------------------------------------------- callbacks that call the bus --
\* The callback called last is still running: the dispatch loop of the
\* innermost publish() waits for it.  Before it returns it may call one
\* method of a bus, as long as fewer than MaxReentrant such calls have been
\* made during the publish.
InCallback ==
    /\ stack # <<>>
    /\ Top.pc = "subscribers"
    /\ trace[Len(trace)].kind = "notify"
    /\ Cardinality({n \in 1..Len(trace) :
                       trace[n].kind \notin {"publish", "notify", "raise"}})
          < MaxReentrant

\* a bus method called from within a callback
Reentered(op, b, arg) == [kind |-> op, bus |-> b, callback |-> arg]

\* the buses below the innermost publish(): their followers loops are running
Leaders == {stack[n].bus : n \in 1..(Len(stack) - 1)}

\* the running loops over the list that bus b has just dropped keep that
\* list, which holds items
Detach(b, pc, items) ==
    [n \in 1..Len(stack) |->
        IF stack[n].bus = b /\ stack[n].pc = pc /\ ~stack[n].detached
        THEN [stack[n] EXCEPT !.detached = TRUE, !.items = items]
        ELSE stack[n]]

\* the callback calls subscribe(type(event), callback) on its own bus
reenter_subscribe(callback) ==
    /\ InCallback
    /\ subscribers' = [subscribers EXCEPT
                          ![Top.bus] = Subscribed(@, last.klass, callback)]
    /\ Registrations(subscribers') + Connections(followers) <= MaxEntries
    /\ trace' = Append(trace, Reentered("subscribe", Top.bus, callback))
    /\ UNCHANGED <<followers, stack, result, last, before>>

\* the callback calls unsubscribe(type(event), callback) on its own bus;
\* list.remove works on the list object the loop iterates over, and the
\* emptied list is taken out of the dict
reenter_unsubscribe(callback) ==
    /\ InCallback
    /\ subscribers' = [subscribers EXCEPT
                          ![Top.bus] = Unsubscribed(@, last.klass, callback)]
    /\ stack' = IF last.klass \in DOMAIN subscribers[Top.bus]
                   /\ last.klass \notin DOMAIN subscribers'[Top.bus]
                THEN Detach(Top.bus, "subscribers", <<>>)
                ELSE stack
    /\ trace' = Append(trace, Reentered("unsubscribe", Top.bus, callback))
    /\ UNCHANGED <<followers, result, last, before>>

\* the callback calls unsubscribe_all() on its own bus: the bus gets a new
\* dict, the list the loop iterates over is untouched
reenter_unsubscribe_all ==
    /\ InCallback
    /\ subscribers' = [subscribers EXCEPT ![Top.bus] = EmptyDict]
    /\ stack' = Detach(Top.bus, "subscribers", Listeners(Top.bus, last.klass))
    /\ trace' = Append(trace, Reentered("unsubscribe_all", Top.bus, "none"))
    /\ UNCHANGED <<followers, result, last, before>>

\* the callback calls connect(other) on a bus that is forwarding the event
reenter_connect(b, other) ==
    /\ InCallback
    /\ b \in Leaders
    /\ followers' = [followers EXCEPT ![b] = Append(@, other)]
    /\ Registrations(subscribers) + Connections(followers') <= MaxEntries
    /\ trace' = Append(trace, Reentered("connect", b, other))
    /\ UNCHANGED <<subscribers, stack, result, last, before>>

\* the callback calls disconnect(other), other being connected, on a bus
\* that is forwarding the event
reenter_disconnect(b, other) ==
    /\ InCallback
    /\ b \in Leaders
    /\ InList(other, followers[b])
    /\ followers' = [followers EXCEPT ![b] = ListRemove(@, other)]
    /\ trace' = Append(trace, Reentered("disconnect", b, other))
    /\ UNCHANGED <<subscribers, stack, result, last, before>>

\* the callback calls disconnect_all() on a bus that is forwarding the
\* event: the bus gets a new list, the one its loop iterates over is untouched
reenter_disconnect_all(b) ==
    /\ InCallback
    /\ b \in Leaders
    /\ followers' = [followers EXCEPT ![b] = <<>>]
    /\ stack' = Detach(b, "followers", followers[b])
    /\ trace' = Append(trace, Reentered("disconnect_all", b, "none"))
    /\ UNCHANGED <<subscribers, result, last, before>>

NextReentrant ==
    \/ Next
    \/ \E callback \in Callbacks : reenter_subscribe(callback)
    \/ \E callback \in Callbacks : reenter_unsubscribe(callback)
    \/ reenter_unsubscribe_all
    \/ \E b \in Buses, other \in Buses : reenter_connect(b, other)
    \/ \E b \in Buses, other \in Buses : reenter_disconnect(b, other)
    \/ \E b \in Buses : reenter_disconnect_all(b)

ReentrantSpec == Init /\ [][NextReentrant]_vars

\* ---------------------------------------------------------------- claims --
\* number of times bus b has called callback in the current top-level call
NotifyCount(b, callback) ==
    Cardinality({i \in 1..Len(trace) : trace[i] = Called(b, callback)})

\* the (bus, klass, callback) registrations held by the dicts subs
Pairs(subs) ==
    {p \in Buses \X Klasses \X Callbacks :
        /\ p[2] \in DOMAIN subs[p[1]]
        /\ InList(p[3], subs[p[1]][p[2]])}

Returned(op) == last.op = op /\ stack = <<>> /\ result = "ok"

\* C1: when publish(event) has returned on a bus without followers, every
\* callback registered on that bus for exactly type(event) has been called
\* once, and nothing else has been called (in particular no callback that is
\* registered only for a base class of type(event)).
C1_ExactTypeDispatch ==
    (Returned("publish") /\ followers[last.bus] = <<>>) =>
        /\ \A cb \in Callbacks :
              NotifyCount(last.bus, cb) =
                 IF <<last.bus, last.klass, cb>> \in Pairs(subscribers) THEN 1 ELSE 0
        /\ \A i \in 1..Len(trace) : trace[i].bus = last.bus

C1_Witness ==
    /\ Returned("publish") /\ followers[last.bus] = <<>>
    /\ last.klass = "TestEvent1"
    /\ \E cb1, cb2 \in Callbacks :
          /\ cb1 # cb2
          /\ <<last.bus, "TestEvent1", cb1>> \in Pairs(subscribers)
          /\ <<last.bus, "BaseEvent", cb2>> \in Pairs(subscribers)
          /\ <<last.bus, "TestEvent1", cb2>> \notin Pairs(subscribers)
          /\ NotifyCount(last.bus, cb1) = 1

\* C2: after subscribe(klass, callback) with klass implementing IEvent,
\* has_subscribed(klass, callback) is true; and in every reachable state no
\* callback occurs twice in the list of any event type of any bus.
C2_SubscribeIdempotent ==
    /\ (last.op = "subscribe" /\ last.klass \in EventKlasses) =>
          /\ result = "ok"
          /\ HasSubscribed(last.bus, last.klass, last.arg)
    /\ \A b \in Buses : \A k \in DOMAIN subscribers[b] :
          \A i, j \in 1..Len(subscribers[b][k]) :
             subscribers[b][k][i] = subscribers[b][k][j] => i = j

\* subscribe(klass, callback) on a bus where the pair was already registered
C2_Witness ==
    /\ last.op = "subscribe" /\ result = "ok"
    /\ HasSubscribed(last.bus, last.klass, last.arg)
    /\ <<last.bus, last.klass, last.arg>> \in Pairs(before.subscribers)
    /\ Len(subscribers[last.bus][last.klass]) = 2

\* C3: unsubscribe(klass, callback) with klass implementing IEvent does not
\* raise, and the registrations afterwards are those before the call minus
\* (bus, klass, callback).
C3_UnsubscribeExact ==
    (last.op = "unsubscribe" /\ last.klass \in EventKlasses) =>
        /\ result = "ok"
        /\ Pairs(subscribers) =
              Pairs(before.subscribers) \ {<<last.bus, last.klass, last.arg>>}

\* a registered pair is removed while another callback of the same type stays
C3_Witness ==
    /\ last.op = "unsubscribe" /\ result = "ok"
    /\ <<last.bus, last.klass, last.arg>> \in Pairs(before.subscribers)
    /\ \E cb \in Callbacks \ {last.arg} : HasSubscribed(last.bus, last.klass, cb)

\* C4: unsubscribe_all() (also as part of clear()) leaves the dict of its bus
\* empty; an empty dict stays empty until a subscribe on that bus; and a bus
\* whose dict is empty calls no callback during any publish.
C4_SilentAfterUnsubscribeAll ==
    /\ [](last.op \in {"unsubscribe_all", "clear"} =>
            subscribers[last.bus] = EmptyDict)
    /\ [][\A b \in Buses :
            (subscribers[b] = EmptyDict /\ subscribers'[b] # EmptyDict) =>
               (last'.op = "subscribe" /\ last'.bus = b)]_vars
    /\ [](\A b \in Buses : subscribers[b] = EmptyDict =>
            \A cb \in Callbacks : NotifyCount(b, cb) = 0)

\* unsubscribe_all() has emptied a dict that held registrations
C4_Witness ==
    /\ last.op = "unsubscribe_all" /\ result = "ok"
    /\ Pairs(before.subscribers) # {}
    /\ \E p \in Pairs(before.subscribers) : p[1] = last.bus
    /\ subscribers[last.bus] = EmptyDict

\* the buses reached from the buses S along follower entries, S included
RECURSIVE ReachFrom(_)
ReachFrom(S) ==
    LET T == S \cup UNION {{followers[b][i] : i \in 1..Len(followers[b])} : b \in S}
    IN  IF T = S THEN S ELSE ReachFrom(T)

Successors(b) == {followers[b][i] : i \in 1..Len(followers[b])}

\* no bus reached from b lies on a cycle of follower entries
AcyclicFrom(b) == \A c \in ReachFrom({b}) : c \notin ReachFrom(Successors(c))

PublishEnded ==
    last.op = "publish" /\ last.klass \in EventKlasses /\ stack = <<>>

\* the callbacks called are those registered for type(event) on a reached bus
ReachedExactly ==
    \A b \in Buses : \A cb \in Callbacks :
        (NotifyCount(b, cb) > 0) <=>
            (b \in ReachFrom({last.bus}) /\ <<b, last.klass, cb>> \in Pairs(subscribers))

C6_DisconnectStops ==
    (last.op = "disconnect" /\ result = "ok") => ~IsConnected(last.bus, last.arg)

\* C7: after clear() the bus holds what a new bus holds: has_subscribed is
\* false for every type and callback, is_connected is false for every bus.
C7_ClearFresh ==
    last.op = "clear" =>
        /\ result = "ok"
        /\ subscribers[last.bus] = EmptyDict
        /\ followers[last.bus] = <<>>
        /\ \A k \in Klasses, cb \in Callbacks : ~HasSubscribed(last.bus, k, cb)
        /\ \A o \in Buses : ~IsConnected(last.bus, o)

\* clear() on a bus that had registrations and followers
C7_Witness ==
    /\ last.op = "clear" /\ result = "ok"
    /\ before.subscribers[last.bus] # EmptyDict
    /\ before.followers[last.bus] # <<>>

\* C8: subscribe and unsubscribe with a class that does not implement
\* IEvent raise BusError and change no dict and no follower list.
C8_InvalidSubscription ==
    (last.op \in {"subscribe", "unsubscribe"} /\ last.klass \notin EventKlasses) =>
        /\ result = "BusError"
        /\ subscribers = before.subscribers
        /\ followers = before.followers

\* a rejected subscribe on a bus that holds registrations
C8_Witness ==
    /\ last.op = "subscribe" /\ last.klass = "object"
    /\ result = "BusError"
    /\ subscribers[last.bus] # EmptyDict

\* C9: publish of an event that does not provide IEvent raises BusError
\* at once: no callback is called, publish is entered on no follower, and
\* nothing is changed.
C9_InvalidPublish ==
    (last.op = "publish" /\ last.klass \notin EventKlasses) =>
        /\ result = "BusError"
        /\ stack = <<>>
        /\ trace = <<Entered(last.bus)>>
        /\ subscribers = before.subscribers
        /\ followers = before.followers

\* a rejected publish on a bus that has registrations and a follower
C9_Witness ==
    /\ last.op = "publish" /\ last.klass = "object"
    /\ result = "BusError"
    /\ subscribers[last.bus] # EmptyDict
    /\ followers[last.bus] # <<>>

\* C10: disconnect(other) on a bus that does not have `other` among its
\* followers raises ValueError and changes no follower list and no dict.
C10_DisconnectNotFound ==
    (last.op = "disconnect" /\ ~InList(last.arg, before.followers[last.bus])) =>
        /\ result = "ValueError"
        /\ followers = before.followers
        /\ subscribers = before.subscribers

\* a failed disconnect on a bus that has another follower
C10_Witness ==
    /\ last.op = "disconnect" /\ result = "ValueError"
    /\ followers[last.bus] # <<>>
    /\ ~InList(last.arg, followers[last.bus])

\* the trace of a whole publish on bus b of an event of type klass: the
\* entry, the callbacks of b in list order, then the whole trace of each
\* follower in list order (defined when no cycle is reached from b)
RECURSIVE DepthFirst(_, _), DepthFirstAll(_, _)
DepthFirst(b, klass) ==
    <<Entered(b)>>
       \o [n \in 1..Len(Listeners(b, klass)) |-> Called(b, Listeners(b, klass)[n])]
       \o DepthFirstAll(followers[b], klass)

DepthFirstAll(fs, klass) ==
    IF fs = <<>> THEN <<>>
    ELSE DepthFirst(Head(fs), klass) \o DepthFirstAll(Tail(fs), klass)

IsPrefix(s, t) == Len(s) <= Len(t) /\ SubSeq(t, 1, Len(s)) = s

PublishValid == last.op = "publish" /\ last.klass \in EventKlasses

\* C11: at every moment of a publish on an acyclic follower graph, what has
\* happened so far is a prefix of the depth-first order (own callbacks first,
\* then each follower's whole propagation, in follower-list order), and the
\* publish returns when exactly that order has been run through.
C11_DepthFirstOrder ==
    (PublishValid /\ AcyclicFrom(last.bus)) =>
        /\ IsPrefix(trace, DepthFirst(last.bus, last.klass))
        /\ stack = <<>> => trace = DepthFirst(last.bus, last.klass)

\* a publish on a bus with a callback of its own and two different followers
C11_Witness ==
    /\ Returned("publish") /\ AcyclicFrom(last.bus)
    /\ Listeners(last.bus, last.klass) # <<>>
    /\ Len(followers[last.bus]) = 2
    /\ followers[last.bus][1] # followers[last.bus][2]
    /\ Len(trace) = 4

OnCycle(b) == b \in ReachFrom(Successors(b))

\* C12: connect(other) always succeeds and appends, also when other is the
\* bus itself or closes a cycle; and a publish of a valid event on a bus
\* that lies on a cycle of follower entries never returns normally.
C12_CycleNeverReturns ==
    /\ last.op = "connect" =>
          /\ result = "ok"
          /\ followers[last.bus] = Append(before.followers[last.bus], last.arg)
    /\ (PublishEnded /\ OnCycle(last.bus)) => result = "RuntimeError"
    /\ (PublishValid /\ OnCycle(last.bus)) => result # "ok"

\* a publish on a bus of a cycle through two buses has been unwound
C12_Witness ==
    /\ PublishEnded /\ result = "RuntimeError"
    /\ \E b2 \in Buses \ {last.bus} :
          /\ InList(b2, followers[last.bus])
          /\ InList(last.bus, followers[b2])
          /\ \E n \in 1..Len(trace) : trace[n] = Entered(b2)

\* number of follower paths from bus a to bus b, duplicate entries counted
\* as separate edges (defined when no cycle is reached from a)
RECURSIVE Paths(_, _), PathsAll(_, _)
Paths(a, b) == (IF a = b THEN 1 ELSE 0) + PathsAll(followers[a], b)

PathsAll(fs, b) ==
    IF fs = <<>> THEN 0 ELSE Paths(Head(fs), b) + PathsAll(Tail(fs), b)

EnterCount(b) == Cardinality({n \in 1..Len(trace) : trace[n] = Entered(b)})

\* C15: when a publish on an acyclic follower graph has ended, the event
\* has been published on every bus as many times as there are follower
\* paths to it from the publishing bus, and each callback registered there
\* for type(event) has been called that many times.
C15_OncePerPath ==
    (PublishEnded /\ AcyclicFrom(last.bus)) =>
        \A b \in Buses :
           /\ EnterCount(b) = Paths(last.bus, b)
           /\ \A cb \in Callbacks :
                 NotifyCount(b, cb) =
                    IF <<b, last.klass, cb>> \in Pairs(subscribers)
                    THEN Paths(last.bus, b) ELSE 0

\* a bus that is both a follower and a follower's follower is published
\* on twice
C15_Witness ==
    /\ PublishEnded /\ AcyclicFrom(last.bus)
    /\ \E b2, b3 \in Buses \ {last.bus} :
          /\ b2 # b3
          /\ InList(b2, followers[last.bus]) /\ InList(b3, followers[last.bus])
          /\ InList(b3, followers[b2])
          /\ EnterCount(b3) = 2

Occurrences(x, s) == Cardinality({n \in 1..Len(s) : s[n] = x})

C17_NoEmptyList ==
    \A b \in Buses :
       /\ \A k \in DOMAIN subscribers[b] : Len(subscribers[b][k]) >= 1
       /\ \A k \in Klasses :
             (k \in DOMAIN subscribers[b]) <=>
                (\E cb \in Callbacks : HasSubscribed(b, k, cb))

\* unsubscribe of the only callback of a type has removed the key
C17_Witness ==
    /\ last.op = "unsubscribe" /\ result = "ok"
    /\ last.klass \in DOMAIN before.subscribers[last.bus]
    /\ before.subscribers[last.bus][last.klass] = <<last.arg>>
    /\ last.klass \notin DOMAIN subscribers[last.bus]

\* C18: a call changes nothing on the other buses; on its own bus subscribe,
\* unsubscribe and unsubscribe_all leave the follower list, connect,
\* disconnect and disconnect_all leave the dict, and has_subscribed,
\* is_connected and publish leave both.
C18_Frame ==
    last # NoCall =>
        /\ \A b \in Buses \ {last.bus} :
              /\ subscribers[b] = before.subscribers[b]
              /\ followers[b] = before.followers[b]
        /\ last.op \in {"subscribe", "unsubscribe", "unsubscribe_all"} =>
              followers = before.followers
        /\ last.op \in {"connect", "disconnect", "disconnect_all"} =>
              subscribers = before.subscribers
        /\ last.op \in {"has_subscribed", "is_connected", "publish"} =>
              /\ subscribers = before.subscribers
              /\ followers = before.followers

\* unsubscribe_all on a bus with followers, while another bus holds
\* registrations
C18_Witness ==
    /\ last.op = "unsubscribe_all" /\ result = "ok"
    /\ before.subscribers[last.bus] # EmptyDict
    /\ followers[last.bus] # <<>>
    /\ \E b \in Buses \ {last.bus} : subscribers[b] # EmptyDict

\* C19: a running publish of a valid event on a bus from which no cycle of
\* follower entries is reached comes to an end, and it ends by returning
\* normally.
C19_AcyclicTerminates ==
    /\ (PublishValid /\ stack # <<>> /\ AcyclicFrom(last.bus)) ~> Returned("publish")
    /\ []((PublishEnded /\ AcyclicFrom(last.bus)) => result = "ok")

\* a publish over several buses that has returned
C19_Witness ==
    /\ Returned("publish") /\ AcyclicFrom(last.bus)
    /\ followers[last.bus] # <<>>
    /\ Len(trace) >= 5

\* C20: once a callback has raised during a publish, nothing more happens
\* in that publish: no further callback is called and publish is entered on
\* no further bus, every active publish has been left with the error, and
\* no dict and no follower list has changed; what had happened before is
\* the depth-first order up to the raising callback.
C20_FailFast ==
    \A n \in 1..Len(trace) :
        trace[n].kind = "raise" =>
            /\ n = Len(trace)
            /\ stack = <<>>
            /\ result = "HandlerError"
            /\ subscribers = before.subscribers
            /\ followers = before.followers
            /\ AcyclicFrom(last.bus) =>
                  /\ IsPrefix(SubSeq(trace, 1, n - 1), DepthFirst(last.bus, last.klass))
                  /\ trace[n - 1] = Called(trace[n].bus, trace[n].callback)

\* a callback of the first follower has raised; the second follower of the
\* publishing bus is never published on
C20_Witness ==
    /\ last.op = "publish" /\ result = "HandlerError"
    /\ Len(followers[last.bus]) = 2
    /\ followers[last.bus][1] # last.bus
    /\ followers[last.bus][2] # followers[last.bus][1]
    /\ trace[Len(trace)].bus = followers[last.bus][1]
    /\ EnterCount(followers[last.bus][2]) = 0

\* the list of callbacks bus b held for klass in the dicts subs
ListenersIn(subs, b, klass) ==
    IF klass \in DOMAIN subs[b] THEN subs[b][klass] ELSE <<>>

\* C13 as stated: when a publish has returned and the event was published
\* once on the publishing bus, every callback that was registered on that
\* bus for type(event) when the publish started has been called exactly
\* once, whatever bus methods the callbacks have called meanwhile.
C13_EachCallbackOnce ==
    (Returned("publish") /\ EnterCount(last.bus) = 1) =>
        \A cb \in Callbacks :
           InList(cb, ListenersIn(before.subscribers, last.bus, last.klass)) =>
              NotifyCount(last.bus, cb) = 1

\* C14 as stated: when a publish has returned on a bus that had no callback
\* for type(event) and was the only bus with followers, the event has been
\* published on each other bus once per occurrence in the follower list
\* the bus had when the publish started, whatever bus methods the callbacks
\* of the followers have called meanwhile.
C14_EachFollowerOnce ==
    (/\ Returned("publish") /\ EnterCount(last.bus) = 1
     /\ ListenersIn(before.subscribers, last.bus, last.klass) = <<>>
     /\ \A b \in Buses \ {last.bus} : before.followers[b] = <<>>) =>
        \A b \in Buses \ {last.bus} :
           EnterCount(b) = Occurrences(b, before.followers[last.bus])

====
